---- MODULE Spec2Model ----
(***************************************************************************)
(* Model of the RAG backend of physical_AI_book (src/backend): the text   *)
(* splitter, the embedding / ingestion service, the retrieval service and *)
(* the RAG orchestrator.                                                  *)
(*                                                                         *)
(* Texts are sequences of one-character strings.  The specifications     *)
(* are defined over the same variables:                                   *)
(*   SplitSpec   - applies TextSplitter.split_text to every bounded text  *)
(*   IngestSpec  - the calls of one EmbeddingService, in any order        *)
(*   QuerySpec   - the calls of the retrieval and RAG services            *)
(*   SetupSpec   - EmbeddingService instances setting up the collection   *)
(***************************************************************************)
EXTENDS Integers, Sequences, FiniteSets, TLC

VARIABLES
    text,               \* argument of the last split_text call
    chunk_size,         \* TextSplitter.chunk_size
    chunks,             \* list returned by the last split_text call
    pc,                 \* "input" before the call, "split" after it, "idle" in Spec
    settings,           \* config.settings.settings (the fields the services read)
    embedding_service,  \* EmbeddingService: which clients are set
    retrieval_service,  \* RetrievalService: its client and its own EmbeddingService
    rag_service,        \* RAGService: its generation client
    index,              \* points held by the Qdrant collection (external store)
    next_uuid,          \* number of uuid4() values drawn so far
    ingest_count,       \* per document: process_document calls made for it
    call,               \* the service call being answered: arguments, external
                        \* events, outcome; NoCall between calls
    collection,         \* the Qdrant collection's declaration (external store)
    instances           \* per EmbeddingService under construction: its position
                        \* in _create_collection and what it did

splitVars == <<text, chunk_size, chunks, pc>>
serviceVars == <<settings, embedding_service, retrieval_service, rag_service,
                 index, next_uuid, ingest_count, call>>
setupVars == <<collection, instances>>
vars == <<text, chunk_size, chunks, pc, settings, embedding_service,
          retrieval_service, rag_service, index, next_uuid,
          ingest_count, call, collection, instances>>

----------------------------------------------------------------------------
(* Bounds of the splitter model *)

MaxLen == 6
MaxChunkSize == 3

NL == "\n"
Whitespace == {" ", NL}
Terminators == {".", "!", "?"}
Alphabet == {"a", "b", ".", " ", NL}

Texts == UNION {[1..n -> Alphabet] : n \in 0..MaxLen}
ChunkSizes == 2..MaxChunkSize

----------------------------------------------------------------------------
(* Python string primitives used by utils/text_splitter.py *)

Drop(s, n) == SubSeq(s, n + 1, Len(s))

RECURSIVE LStrip(_)
LStrip(s) ==
    IF s # <<>> /\ Head(s) \in Whitespace THEN LStrip(Tail(s)) ELSE s

RECURSIVE RStrip(_)
RStrip(s) ==
    IF s # <<>> /\ s[Len(s)] \in Whitespace
    THEN RStrip(SubSeq(s, 1, Len(s) - 1))
    ELSE s

\* str.strip()
Strip(s) == RStrip(LStrip(s))

\* str.split('\n\n'): cut at every non-overlapping blank line, left to right
RECURSIVE SplitAt(_, _)
SplitAt(s, acc) ==
    IF s = <<>> THEN <<acc>>
    ELSE IF Len(s) >= 2 /\ s[1] = NL /\ s[2] = NL
         THEN <<acc>> \o SplitAt(Drop(s, 2), <<>>)
         ELSE SplitAt(Tail(s), Append(acc, Head(s)))

SplitParagraphs(s) == SplitAt(s, <<>>)

RECURSIVE SkipTerminators(_)
SkipTerminators(s) ==
    IF s # <<>> /\ Head(s) \in Terminators THEN SkipTerminators(Tail(s)) ELSE s

\* re.split(r'[.!?]+', s): cut at every maximal run of terminators; the runs
\* themselves are not part of any piece
RECURSIVE SplitRe(_, _)
SplitRe(s, acc) ==
    IF s = <<>> THEN <<acc>>
    ELSE IF Head(s) \in Terminators
         THEN <<acc>> \o SplitRe(SkipTerminators(s), <<>>)
         ELSE SplitRe(Tail(s), Append(acc, Head(s)))

SplitSentences(s) == SplitRe(s, <<>>)

----------------------------------------------------------------------------
(* TextSplitter *)

\* the sentence loop shared by _split_large_paragraph and _split_large_chunk;
\* st = [chunks, current]
RECURSIVE SentenceLoop(_, _, _)
SentenceLoop(sentences, st, cs) ==
    IF sentences = <<>> THEN st
    ELSE LET sentence == Strip(Head(sentences))
             flushed  == IF Strip(st.current) # <<>>
                         THEN Append(st.chunks, Strip(st.current))
                         ELSE st.chunks
             next     == IF sentence = <<>> THEN st
                         ELSE IF Len(st.current) + Len(sentence) > cs
                              THEN [chunks |-> flushed, current |-> sentence]
                              ELSE [chunks  |-> st.chunks,
                                    current |-> st.current \o <<" ">> \o sentence]
         IN SentenceLoop(Tail(sentences), next, cs)

FlushLast(st) ==
    IF Strip(st.current) # <<>>
    THEN Append(st.chunks, Strip(st.current))
    ELSE st.chunks

split_large_paragraph(paragraph, cs) ==
    FlushLast(SentenceLoop(SplitSentences(paragraph),
                           [chunks |-> <<>>, current |-> <<>>], cs))

split_large_chunk(chunk, cs) ==
    IF Len(chunk) <= cs THEN <<chunk>>
    ELSE FlushLast(SentenceLoop(SplitSentences(chunk),
                                [chunks |-> <<>>, current |-> <<>>], cs))

\* the paragraph loop of split_text; st = [chunks, current]
RECURSIVE ParagraphLoop(_, _, _)
ParagraphLoop(paragraphs, st, cs) ==
    IF paragraphs = <<>> THEN st
    ELSE LET paragraph == Head(paragraphs)
             flushed   == IF Strip(st.current) # <<>>
                          THEN Append(st.chunks, Strip(st.current))
                          ELSE st.chunks
             next      ==
                 IF Len(st.current) + Len(paragraph) > cs
                 THEN IF Len(paragraph) > cs
                      THEN [chunks  |-> flushed \o split_large_paragraph(paragraph, cs),
                            current |-> <<>>]
                      ELSE [chunks |-> flushed, current |-> paragraph]
                 ELSE [chunks  |-> st.chunks,
                       current |-> st.current \o <<NL, NL>> \o paragraph]
         IN ParagraphLoop(Tail(paragraphs), next, cs)

\* the final pass of split_text over the chunk list
RECURSIVE Resplit(_, _)
Resplit(cl, cs) ==
    IF cl = <<>> THEN <<>>
    ELSE (IF Len(Head(cl)) > cs
          THEN split_large_chunk(Head(cl), cs)
          ELSE <<Head(cl)>>) \o Resplit(Tail(cl), cs)

split_text(t, cs) ==
    IF Len(t) <= cs THEN <<t>>
    ELSE Resplit(FlushLast(ParagraphLoop(SplitParagraphs(t),
                                         [chunks |-> <<>>, current |-> <<>>], cs)),
                 cs)

----------------------------------------------------------------------------
(* Values shared by the services *)

\* bounds of the service models
ServiceChunkSize == 3   \* stands for TextSplitter() chunk_size (1000), scaled to the model's texts
MaxUuid == 12           \* uuid4() values an ingestion run may draw
MaxIngest == 2          \* process_document calls per document

EmbeddingDim == 1536
Timestamp == "ts"       \* datetime.now().isoformat(), an opaque value

Uuid(n) == <<"uuid", n>>

\* [0.1] * 1536
Placeholder == [dim |-> EmbeddingDim, kind |-> "placeholder", of |-> <<>>]
\* the vector a working embedding model returns for a text
Embed(t) == [dim |-> EmbeddingDim, kind |-> "model", of |-> t]

\* outcome of one request to the embedding API: a full answer, an exception,
\* or an answer with one item fewer than the input
EmbedOutcomes == {"ok", "failed", "short"}
UpsertOutcomes == {"ok", "failed"}

NoExt == [embed |-> "none", upsert |-> "none", search |-> "none",
          generation |-> "none", embed2 |-> "none", search2 |-> "none",
          summarize |-> "none"]

Returned(v) == [outcome |-> "returned", value |-> v]
Raised(e) == [outcome |-> "raised", value |-> e]

\* import results of the deployment: (openai importable, qdrant_client importable)
Installs == BOOLEAN \X BOOLEAN

\* EmbeddingService._initialize_clients: both clients are set in one try
\* block; an ImportError of either package leaves both None
NewEmbeddingService(openai, qdrant) ==
    [qwen_client |-> openai /\ qdrant, qdrant_client |-> openai /\ qdrant]

\* RetrievalService.__init__ / _initialize_clients
NewRetrievalService(openai, qdrant) ==
    [embedding_service |-> NewEmbeddingService(openai, qdrant),
     qdrant_client |-> qdrant]

\* RAGService.__init__ / _initialize_clients; cohere is whether
\* CohereService._initialize_client obtained a client
NewRAGService(openai, qdrant, cohere) ==
    [qwen_client |-> openai,
     retrieval_service |-> NewRetrievalService(openai, qdrant),
     cohere_service |-> [client |-> cohere]]

----------------------------------------------------------------------------
(* The Qdrant collection *)

Point(id, vector, payload) == [id |-> id, vector |-> vector, payload |-> payload]

Ids(points) == {p.id : p \in points}

\* QdrantClient.upsert: write or overwrite by id
Upsert(idx, points) == {p \in idx : p.id \notin Ids(points)} \cup points

----------------------------------------------------------------------------
(* EmbeddingService *)

\* what the embedding API sends back for texts
EmbedResponse(texts, ext) ==
    IF ext = "short"
    THEN [i \in 1..(IF Len(texts) > 0 THEN Len(texts) - 1 ELSE 0) |-> Embed(texts[i])]
    ELSE [i \in 1..Len(texts) |-> Embed(texts[i])]

\* the external event of a generate_embeddings call: none without a client
EmbedEvent(svc, ext) == IF svc.qwen_client THEN ext ELSE "none"

generate_embeddings(svc, texts, ext) ==
    IF ~svc.qwen_client
    THEN Returned([i \in 1..Len(texts) |-> Placeholder])
    ELSE IF ext = "failed"
         THEN Returned([i \in 1..Len(texts) |-> Placeholder])
         ELSE Returned(EmbedResponse(texts, ext))

\* [chunk.strip() for chunk in chunks if chunk.strip()]
RECURSIVE StripNonBlank(_)
StripNonBlank(cl) ==
    IF cl = <<>> THEN <<>>
    ELSE (IF Strip(Head(cl)) # <<>> THEN <<Strip(Head(cl))>> ELSE <<>>)
         \o StripNonBlank(Tail(cl))

Min(a, b) == IF a < b THEN a ELSE b

\* dict.get("document_id", str(uuid.uuid4())): the default is drawn whether
\* or not the key is present
DocumentIdOf(metadata, fresh) ==
    IF "document_id" \in DOMAIN metadata THEN metadata["document_id"] ELSE fresh

\* enumerate() numbering from one
ChunkIndexOneBased(i) == i

\* enumerate() numbers the zipped pairs from zero; i is the 1-based position
ChunkIndex(i) == i - 1

\* chunk i (1-based) draws uuid0 + 2(i-1) for its id and the next one for the
\* document_id default
chunk_and_embed_document(svc, content, metadata, ext, uuid0) ==
    LET split       == split_text(content, ServiceChunkSize)
        chunk_texts == StripNonBlank(split)
        embeddings  == generate_embeddings(svc, chunk_texts, ext).value
        n           == Min(Len(chunk_texts), Len(embeddings))
    IN Returned([i \in 1..n |->
           [id           |-> Uuid(uuid0 + 2 * (i - 1)),
            document_id  |-> DocumentIdOf(metadata, Uuid(uuid0 + 2 * (i - 1) + 1)),
            content      |-> chunk_texts[i],
            metadata     |-> metadata,
            embedding    |-> embeddings[i],
            chunk_index  |-> ChunkIndex(i),
            total_chunks |-> Len(chunk_texts),
            created_at   |-> Timestamp]])

\* embedding.py with `rest` imported at module level
RestBoundImported == TRUE

\* the name `rest` is bound only inside _initialize_clients and
\* _create_collection; embedding.py has no module-level binding, so the
\* lookup in store_document_chunks raises NameError
RestBound == FALSE

PointOf(chunk) ==
    Point(chunk.id, chunk.embedding,
          [content     |-> chunk.content,
           document_id |-> chunk.document_id,
           chunk_index |-> chunk.chunk_index,
           metadata    |-> chunk.metadata,
           created_at  |-> chunk.created_at])

\* result and the new contents of the collection
store_document_chunks(svc, dchunks, idx, ext) ==
    IF ~svc.qdrant_client
    THEN [res |-> Returned(TRUE), index |-> idx, upsert |-> "none"]
    ELSE IF dchunks # <<>> /\ ~RestBound
         THEN [res |-> Raised("NameError"), index |-> idx, upsert |-> "none"]
         ELSE IF ext = "failed"
              THEN [res |-> Raised("upsert"), index |-> idx, upsert |-> "failed"]
              ELSE [res    |-> Returned(TRUE),
                    index  |-> Upsert(idx, {PointOf(dchunks[i]) : i \in DOMAIN dchunks}),
                    upsert |-> "ok"]

\* {**metadata, "title": title, "source": "textbook", "processed_at": now}
DocMetadata(metadata, title) ==
    [title |-> title, source |-> "textbook", processed_at |-> Timestamp] @@ metadata

\* uuid4() values drawn by one process_document call: two per chunk, and one
\* for the document_id of a result without chunks
UuidsDrawn(dchunks, returned) ==
    IF dchunks # <<>> THEN 2 * Len(dchunks) ELSE IF returned THEN 1 ELSE 0

process_document(svc, content, title, metadata, idx, extEmbed, extUpsert, uuid0) ==
    LET doc_metadata == DocMetadata(metadata, title)
        dchunks == chunk_and_embed_document(svc, content, doc_metadata,
                                            extEmbed, uuid0).value
        stored  == store_document_chunks(svc, dchunks, idx, extUpsert)
    IN [chunks |-> dchunks,
        index  |-> stored.index,
        upsert |-> stored.upsert,
        uuids  |-> UuidsDrawn(dchunks, stored.res.outcome = "returned"),
        res    |-> IF stored.res.outcome = "raised" THEN stored.res
                   ELSE Returned(
                          [document_id      |-> IF dchunks # <<>>
                                                THEN dchunks[1].document_id
                                                ELSE Uuid(uuid0),
                           chunks_processed |-> Len(dchunks),
                           status           |-> "success"])]

----------------------------------------------------------------------------
(* RetrievalService *)

MockSimilarity == 80         \* "similarity": 0.8, in hundredths
ContextTopK == 3             \* get_relevant_context(query, top_k=3)

\* cosine similarity as the store computes it, in hundredths: 1.0 for
\* identical vectors
Score(qvec, pvec) == IF qvec = pvec THEN 100 ELSE 50

\* QdrantClient.search(query_vector, limit, score_threshold): the limit best
\* points whose score reaches the threshold, best first
RECURSIVE TopHits(_, _, _)
TopHits(cand, qvec, limit) ==
    IF limit <= 0 \/ cand = {} THEN <<>>
    ELSE LET best == CHOOSE p \in cand :
                        \A o \in cand : Score(qvec, p.vector) >= Score(qvec, o.vector)
         IN <<[id |-> best.id, score |-> Score(qvec, best.vector),
               payload |-> best.payload]>>
            \o TopHits(cand \ {best}, qvec, limit - 1)

\* the declaration of a collection: vector size and distance
Declared(size, distance) == [exists |-> TRUE, size |-> size, distance |-> distance]
Absent == [exists |-> FALSE, size |-> 0, distance |-> "none"]
\* rest.VectorParams(size=1536, distance=rest.Distance.COSINE)
RequiredCollection == Declared(EmbeddingDim, "Cosine")

\* a filter condition on "metadata.<key>": match value, or range gte = lte
Matches(p, cond) ==
    /\ cond.key \in DOMAIN p.payload.metadata
    /\ p.payload.metadata[cond.key] = cond.value

\* query_filter is the list of "must" conditions; the empty list stands for
\* query_filter=None
QdrantSearch(idx, qvec, limit, query_filter, threshold) ==
    TopHits({p \in idx :
                /\ Score(qvec, p.vector) >= threshold
                /\ \A c \in DOMAIN query_filter : Matches(p, query_filter[c])},
            qvec, limit)

\* filters=None and filters={}: no filter
NoFilters == <<>>

\* the conditions list built from the filters dict: one condition per entry
\* whose value is a str or an int / float; other entries add nothing
RECURSIVE Conditions(_)
Conditions(filters) ==
    IF filters = <<>> THEN <<>>
    ELSE (IF Head(filters).type = "str"
          THEN <<[key |-> Head(filters).key, kind |-> "match",
                  value |-> Head(filters).value]>>
          ELSE IF Head(filters).type \in {"int", "float"}
               THEN <<[key |-> Head(filters).key, kind |-> "range",
                       value |-> Head(filters).value]>>
               ELSE <<>>)
         \o Conditions(Tail(filters))

\* the result dict built for one hit
FormatHit(hit) ==
    [id          |-> hit.id,
     content     |-> hit.payload.content,
     metadata    |-> hit.payload.metadata,
     similarity  |-> hit.score,
     document_id |-> hit.payload.document_id,
     chunk_index |-> hit.payload.chunk_index]

MockResult(i, query) ==
    [id         |-> <<"mock", i>>,
     content    |-> <<"Mock result for query: ">> \o query,
     metadata   |-> [source |-> "mock", similarity |-> MockSimilarity],
     similarity |-> MockSimilarity]

\* the start and the completion of one external request; the caller is
\* suspended on the request between the two
Request(name) == <<[req |-> name, phase |-> "start"], [req |-> name, phase |-> "end"]>>

\* the later step issued before the earlier one
AwaitReordered(done, next) == next \o done

\* statements in sequence, each awaited before the next is run
Await(done, next) == done \o next

\* res is the outcome; embed / search are the external requests made
search(svc, query, top_k, filters, idx, threshold, extEmbed, extSearch) ==
    IF ~svc.qdrant_client
    THEN [res    |-> Returned([i \in 1..top_k |-> MockResult(i - 1, query)]),
          embed  |-> "none", search |-> "none", query_filter |-> <<>>,
          trace  |-> <<>>]
    ELSE LET query_embedding ==
                 generate_embeddings(svc.embedding_service, <<query>>, extEmbed).value
             ev == EmbedEvent(svc.embedding_service, extEmbed)
             embedded == IF ev = "none" THEN <<>> ELSE Request("embed")
             qdrant_filters == Conditions(filters)
         IN IF query_embedding = <<>>
            THEN [res |-> Raised("IndexError"), embed |-> ev, search |-> "none",
                  query_filter |-> <<>>, trace |-> embedded]
            ELSE IF extSearch = "failed"
                 THEN [res |-> Raised("search"), embed |-> ev, search |-> "failed",
                       query_filter |-> qdrant_filters,
                       trace |-> Await(embedded, Request("search"))]
                 ELSE LET hits == QdrantSearch(idx, query_embedding[1], top_k,
                                               qdrant_filters, threshold)
                      IN [res    |-> Returned([i \in 1..Len(hits) |-> FormatHit(hits[i])]),
                          embed  |-> ev, search |-> "ok",
                          query_filter |-> qdrant_filters,
                          trace  |-> Await(embedded, Request("search"))]

\* result.get('metadata', {}).get('title', 'Unknown')
TitleOf(result) ==
    IF "title" \in DOMAIN result.metadata THEN <<result.metadata["title"]>>
    ELSE <<"Unknown">>

\* every result contributes a part
HasTextAlways(content) == TRUE

\* if content.strip():
HasText(content) == Strip(content) # <<>>

RECURSIVE ContextParts(_)
ContextParts(results) ==
    IF results = <<>> THEN <<>>
    ELSE (IF HasText(Head(results).content)
          THEN << <<"Source: ">> \o TitleOf(Head(results)) \o <<NL>>
                  \o Head(results).content >>
          ELSE <<>>)
         \o ContextParts(Tail(results))

\* "\n\n".join(parts)
RECURSIVE JoinBlank(_)
JoinBlank(parts) ==
    IF parts = <<>> THEN <<>>
    ELSE IF Len(parts) = 1 THEN parts[1]
    ELSE parts[1] \o <<NL, NL>> \o JoinBlank(Tail(parts))

get_relevant_context(svc, query, top_k, idx, threshold, extEmbed, extSearch) ==
    LET s == search(svc, query, top_k, NoFilters, idx, threshold, extEmbed, extSearch)
    IN [res     |-> IF s.res.outcome = "raised" THEN Returned(<<>>)
                    ELSE Returned(JoinBlank(ContextParts(s.res.value))),
        embed   |-> s.embed, search |-> s.search,
        results |-> s.res, trace |-> s.trace]

----------------------------------------------------------------------------
(* RAGService *)

HistoryWindow == 5           \* history[-5:]
PreviewLen == 200            \* content[:200]

SystemPrompt == <<"You are an AI assistant for the Physical AI & Humanoid Robotics Textbook. ...">>
Completion == <<"generated answer">>
Summary == <<"summary">>

\* filter(None, items): drops the empty strings
RECURSIVE FilterTruthy(_)
FilterTruthy(items) ==
    IF items = <<>> THEN <<>>
    ELSE (IF Head(items) # <<>> THEN <<Head(items)>> ELSE <<>>)
         \o FilterTruthy(Tail(items))

LastN(seq, n) == IF Len(seq) <= n THEN seq ELSE SubSeq(seq, Len(seq) - n + 1, Len(seq))

\* conversation_history += f"\n{msg.role.value}: {msg.content}"
RECURSIVE RenderHistory(_)
RenderHistory(msgs) ==
    IF msgs = <<>> THEN <<>>
    ELSE <<NL, Head(msgs).role, ": ">> \o Head(msgs).content
         \o RenderHistory(Tail(msgs))

\* the message list with the context message ahead of the history message
MessagesContextFirst(query, context, history) ==
    <<[role |-> "system", content |-> SystemPrompt]>>
    \o (IF context # <<>>
        THEN <<[role |-> "system",
                content |-> <<"Context for answering the question:", NL>> \o context]>>
        ELSE <<>>)
    \o (IF history # <<>>
        THEN <<[role |-> "user",
                content |-> <<"Previous conversation:", NL>> \o history]>>
        ELSE <<>>)
    \o <<[role |-> "user", content |-> query]>>

\* the message list _generate_response sends
Messages(query, context, history) ==
    <<[role |-> "system", content |-> SystemPrompt]>>
    \o (IF history # <<>>
        THEN <<[role |-> "user",
                content |-> <<"Previous conversation:", NL>> \o history]>>
        ELSE <<>>)
    \o (IF context # <<>>
        THEN <<[role |-> "system",
                content |-> <<"Context for answering the question:", NL>> \o context]>>
        ELSE <<>>)
    \o <<[role |-> "user", content |-> query]>>

MockResponse(query) ==
    <<"I received your query: '">> \o query
    \o <<"'. This is a mock response since Qwen is not configured.">>

generate_response(rag, query, context, history, extGen) ==
    IF ~rag.qwen_client
    THEN [res |-> Returned(MockResponse(query)),
          generation |-> "none", messages |-> <<>>, trace |-> <<>>]
    ELSE IF extGen = "failed"
         THEN [res |-> Raised("generation"), generation |-> "failed",
               messages |-> Messages(query, context, history),
               trace |-> Request("generation")]
         ELSE [res |-> Returned(Completion), generation |-> "ok",
               messages |-> Messages(query, context, history),
               trace |-> Request("generation")]

SourceOf(result) ==
    [id          |-> result.id,
     content     |-> SubSeq(result.content, 1, Min(PreviewLen, Len(result.content)))
                     \o <<"...">>,
     similarity  |-> result.similarity,
     metadata    |-> result.metadata,
     document_id |-> IF "document_id" \in DOMAIN result
                     THEN result.document_id ELSE <<"", 0>>]

\* _get_sources without its except clause
get_sources_Propagating(rag, query, idx, cfg, extEmbed, extSearch) ==
    LET s == search(rag.retrieval_service, query, cfg.default_top_k, NoFilters, idx,
                    cfg.similarity_threshold, extEmbed, extSearch)
    IN [res    |-> IF s.res.outcome = "raised" THEN s.res
                   ELSE Returned([i \in DOMAIN s.res.value |-> SourceOf(s.res.value[i])]),
        embed  |-> s.embed, search |-> s.search, trace |-> s.trace]

get_sources(rag, query, idx, cfg, extEmbed, extSearch) ==
    LET s == search(rag.retrieval_service, query, cfg.default_top_k, NoFilters, idx,
                    cfg.similarity_threshold, extEmbed, extSearch)
    IN [res    |-> IF s.res.outcome = "raised" THEN Returned(<<>>)
                   ELSE Returned([i \in DOMAIN s.res.value |-> SourceOf(s.res.value[i])]),
        embed  |-> s.embed, search |-> s.search, trace |-> s.trace]

\* summarize_text returning nothing when the request fails
summarize_text_Dropping(svc, t, extSum) ==
    IF ~svc.client THEN [res |-> Returned(t), summarize |-> "none", trace |-> <<>>]
    ELSE IF extSum = "failed"
         THEN [res |-> Returned(<<>>), summarize |-> "failed",
               trace |-> Request("summarize")]
         ELSE [res |-> Returned(Summary), summarize |-> "ok",
               trace |-> Request("summarize")]

\* CohereService.summarize_text
summarize_text(svc, t, extSum) ==
    IF ~svc.client THEN [res |-> Returned(t), summarize |-> "none", trace |-> <<>>]
    ELSE IF extSum = "failed"
         THEN [res |-> Returned(t), summarize |-> "failed",
               trace |-> Request("summarize")]
         ELSE [res |-> Returned(Summary), summarize |-> "ok",
               trace |-> Request("summarize")]

\* the statements of process_query, each applied to the frame the earlier
\* statements leave; env gives the outcome of each external request

\* final_context and conversation_history, from the retrieved context
CombineContexts(context, history, retrieved) ==
    [retrieved            |-> retrieved,
     final_context        |-> JoinBlank(FilterTruthy(<<context, retrieved.res.value>>)),
     \* msg.role.value on a message whose role is a str: AttributeError
     str_role             |-> \E i \in DOMAIN LastN(history, HistoryWindow) :
                                 LastN(history, HistoryWindow)[i].role_type = "str",
     conversation_history |-> RenderHistory(LastN(history, HistoryWindow))]

\* response_text = await self._generate_response(...)
GenerateStep(rag, query, env, f) ==
    [retrieved            |-> f.retrieved,
     final_context        |-> f.final_context,
     str_role             |-> f.str_role,
     conversation_history |-> f.conversation_history,
     gen                  |-> generate_response(rag, query, f.final_context,
                                                f.conversation_history, env.generation)]

\* sources = await self._get_sources(query)
SourcesStep(rag, query, idx, cfg, env, f) ==
    [retrieved            |-> f.retrieved,
     final_context        |-> f.final_context,
     str_role             |-> f.str_role,
     conversation_history |-> f.conversation_history,
     gen                  |-> f.gen,
     sources              |-> get_sources(rag, query, idx, cfg, env.embed2, env.search2)]

\* if settings.cohere_api_key: response_text = await summarize_text(response_text)
EnhanceStep(rag, cfg, env, f) ==
    [retrieved            |-> f.retrieved,
     final_context        |-> f.final_context,
     str_role             |-> f.str_role,
     conversation_history |-> f.conversation_history,
     gen                  |-> f.gen,
     sources              |-> f.sources,
     enhanced             |-> IF cfg.cohere_api_key
                              THEN summarize_text(rag.cohere_service, f.gen.res.value,
                                                  env.summarize)
                              ELSE [res |-> f.gen.res, summarize |-> "none",
                                    trace |-> <<>>]]

\* the outcome of the call: the first exception raised, or the result dict
ResultOf(uuid0, f) ==
    LET locals == [retrieved_context    |-> f.retrieved.res.value,
                   final_context        |-> f.final_context,
                   conversation_history |-> IF f.str_role THEN <<>>
                                            ELSE f.conversation_history,
                   response_text        |-> IF f.str_role \/ f.gen.res.outcome = "raised"
                                            THEN <<>> ELSE f.gen.res.value]
        generated == Await(f.retrieved.trace, f.gen.trace)
        ext1 == [NoExt EXCEPT !.embed = f.retrieved.embed,
                              !.search = f.retrieved.search,
                              !.generation = f.gen.generation]
        ext2 == [ext1 EXCEPT !.embed2 = f.sources.embed, !.search2 = f.sources.search]
    IN IF f.str_role
       THEN [res |-> Raised("AttributeError"),
             ext |-> [NoExt EXCEPT !.embed = f.retrieved.embed,
                                   !.search = f.retrieved.search],
             messages |-> <<>>, uuids |-> 0, results |-> f.retrieved.results,
             locals |-> locals,
             trace |-> f.retrieved.trace]
       ELSE IF f.gen.res.outcome = "raised"
       THEN [res |-> f.gen.res, ext |-> ext1, messages |-> f.gen.messages, uuids |-> 0,
             results |-> f.retrieved.results, locals |-> locals, trace |-> generated]
       ELSE IF f.sources.res.outcome = "raised"
       THEN [res |-> f.sources.res, ext |-> ext2, messages |-> f.gen.messages,
             uuids |-> 0, results |-> f.retrieved.results, locals |-> locals,
             trace |-> Await(generated, f.sources.trace)]
       ELSE [res |-> Returned([response        |-> f.enhanced.res.value,
                               sources         |-> f.sources.res.value,
                               context         |-> f.final_context,
                               conversation_id |-> Uuid(uuid0),
                               timestamp       |-> Timestamp]),
             ext |-> [ext2 EXCEPT !.summarize = f.enhanced.summarize],
             messages |-> f.gen.messages, uuids |-> 1,
             results |-> f.retrieved.results, locals |-> locals,
             trace |-> Await(Await(generated, f.sources.trace), f.enhanced.trace)]

process_query(rag, query, context, history, idx, cfg, env, uuid0) ==
    ResultOf(uuid0,
      EnhanceStep(rag, cfg, env,
        SourcesStep(rag, query, idx, cfg, env,
          GenerateStep(rag, query, env,
            CombineContexts(context, history,
              get_relevant_context(rag.retrieval_service, query, ContextTopK, idx,
                                   cfg.similarity_threshold, env.embed, env.search))))))

\* conversation_id: None and "" are both falsy
NoConversationId == <<"", 0>>

\* RAGService.chat: the result of process_query with its conversation_id
\* set to the caller's, or to a fresh uuid4
ChatResult(conversation_id, uuid0, r) ==
    IF r.res.outcome = "raised" THEN r
    ELSE [r EXCEPT !.res = Returned([r.res.value EXCEPT !.conversation_id =
                                        IF conversation_id # NoConversationId
                                        THEN conversation_id
                                        ELSE Uuid(uuid0 + r.uuids)]),
                   !.uuids = IF conversation_id = NoConversationId THEN @ + 1 ELSE @]

chat(rag, message, conversation_id, history, idx, cfg, env, uuid0) ==
    ChatResult(conversation_id, uuid0,
               process_query(rag, message, <<>>, history, idx, cfg, env, uuid0))

\* the response of POST /chat from the result of process_query; any
\* exception becomes an HTTP 500
ChatResponse(r) ==
    IF r.res.outcome = "raised" THEN [r EXCEPT !.res = Raised("HTTP 500")]
    ELSE [r EXCEPT !.res = Returned([response        |-> r.res.value.response,
                                     conversation_id |-> r.res.value.conversation_id,
                                     sources         |-> r.res.value.sources,
                                     timestamp       |-> r.res.value.timestamp])]

chat_endpoint(rag, message, context, history, idx, cfg, env, uuid0) ==
    ChatResponse(process_query(rag, message, context, history, idx, cfg, env, uuid0))

----------------------------------------------------------------------------
(* Inputs of the service models *)

DocShort == [title |-> "short", content |-> <<"a", "b">>]
DocBlank == [title |-> "blank", content |-> <<" ", " ">>]
DocLong == [title |-> "long",
            content |-> <<"a", "a", NL, NL, "b", "b", NL, NL, "a", "b">>]
Docs == {DocShort, DocBlank, DocLong}

\* caller metadata without and with a "document_id" entry
MetaPlain == [chapter |-> "ch1"]
MetaWithId == [chapter |-> "ch1", document_id |-> <<"doc", 7>>]
Metadatas == {MetaPlain, MetaWithId}

TextLists == {<<>>, <<DocShort.content>>, <<DocShort.content, <<"b">>>>}

\* points already held by the collection when the services are constructed
StoredA == Point(<<"pt", 1>>, Embed(<<"q", "1">>),   \* the embedding of Query1
                 [content |-> <<"Paris is the capital of France">>,
                  document_id |-> <<"doc", 1>>, chunk_index |-> 0,
                  metadata |-> [title |-> "X", chapter |-> "ch1", page |-> "1"],
                  created_at |-> Timestamp])
StoredB == Point(<<"pt", 2>>, Embed(<<"z">>),
                 [content |-> <<"Berlin">>,
                  document_id |-> <<"doc", 2>>, chunk_index |-> 0,
                  metadata |-> [title |-> "Y", chapter |-> "ch2", page |-> "2"],
                  created_at |-> Timestamp])
\* a point whose payload content is blank
StoredC == Point(<<"pt", 3>>, Embed(<<"q", "2">>),   \* the embedding of Query2
                 [content |-> <<" ">>,
                  document_id |-> <<"doc", 3>>, chunk_index |-> 0,
                  metadata |-> [title |-> "Z", chapter |-> "ch1", page |-> "3"],
                  created_at |-> Timestamp])
Collections == {{}, {StoredA, StoredB, StoredC}}

\* DocumentChunk objects handed to store_document_chunks by a caller
MakeChunk(id, content) ==
    [id           |-> id,
     document_id  |-> <<"doc", 7>>,
     content      |-> content,
     metadata     |-> MetaPlain,
     embedding    |-> Embed(content),
     chunk_index  |-> 0,
     total_chunks |-> 1,
     created_at   |-> Timestamp]
ChunkA == MakeChunk(<<"uuid", 101>>, <<"a">>)
\* the chunk of the same id with other content
ChunkA2 == MakeChunk(<<"uuid", 101>>, <<"b">>)
ChunkB == MakeChunk(<<"uuid", 102>>, <<"b">>)
ChunkLists == {<<>>, <<ChunkA>>, <<ChunkA2>>, <<ChunkA, ChunkB>>}

SimilarityDefault == 30      \* settings.similarity_threshold, in hundredths
TopKDefault == 5             \* settings.default_top_k

\* inputs and deployments of the query model
MaxTopK == 3
MaxConversations == 1   \* process_query calls that return (one uuid4() each)

Query1 == <<"q", "1">>
Query2 == <<"q", "2">>
Queries == {Query1, Query2}
TopKs == 1..MaxTopK
\* context: None and "" are both falsy and are both the empty text here
Contexts == {<<>>, <<"c">>}
\* a supplied context of whitespace only
BlankContexts == {<<" ">>}

\* filters dicts as lists of entries; a value carries its Python type
FilterEntry(k, t, v) == [key |-> k, type |-> t, value |-> v]
FilterChapter == <<FilterEntry("chapter", "str", "ch1")>>
FilterPage == <<FilterEntry("page", "int", "2")>>
FilterTags == <<FilterEntry("tags", "list", "[t]")>>
FilterChapterTags == <<FilterEntry("chapter", "str", "ch1"),
                       FilterEntry("tags", "list", "[t]")>>
FilterSets == {NoFilters, FilterChapter, FilterPage, FilterTags, FilterChapterTags}

\* models.query.ChatMessage: the role is a MessageRole member
Turn(r, n) == [role |-> r, content |-> <<"m", n>>, role_type |-> "MessageRole"]
\* api.v1.chat.ChatMessage: the role is a str
ChatTurn(r, n) == [role |-> r, content |-> <<"m", n>>, role_type |-> "str"]
EndpointHistories == {<<>>, <<ChatTurn("user", "1")>>}

\* conversation_id: absent or a caller's identifier
ConversationIds == {NoConversationId, <<"conv", 1>>}
History2 == <<Turn("user", "1"), Turn("assistant", "2")>>
History6 == <<Turn("user", "1"), Turn("assistant", "2"), Turn("user", "3"),
              Turn("assistant", "4"), Turn("user", "5"), Turn("assistant", "6")>>
Histories == {<<>>, History2, History6}

SearchOutcomes == {"ok", "failed"}
GenerationOutcomes == {"ok", "failed"}
SummarizeOutcomes == {"ok", "failed"}

QueryEnvs ==
    [embed : EmbedOutcomes, search : SearchOutcomes,
     generation : GenerationOutcomes, embed2 : EmbedOutcomes,
     search2 : SearchOutcomes, summarize : SummarizeOutcomes]

\* the environments that differ in a request the deployment makes: the
\* outcome of a request that is never sent is fixed
EnvsOf(rag, cfg) ==
    {env \in QueryEnvs :
        /\ ~rag.retrieval_service.qdrant_client
           => env.search = "ok" /\ env.search2 = "ok"
        /\ ~(rag.retrieval_service.qdrant_client
             /\ rag.retrieval_service.embedding_service.qwen_client)
           => env.embed = "ok" /\ env.embed2 = "ok"
        /\ ~rag.qwen_client => env.generation = "ok"
        /\ ~(cfg.cohere_api_key /\ rag.cohere_service.client)
           => env.summarize = "ok"}

\* the external outcomes drawn for chat calls: the two retrievals fare alike
ChatEnvs == {env \in QueryEnvs : /\ env.embed2 = env.embed
                                 /\ env.search2 = env.search
                                 /\ env.summarize = "ok"}

Thresholds == {SimilarityDefault, 90}   \* SIMILARITY_THRESHOLD of the deployment
DefaultTopKs == {1, TopKDefault}        \* DEFAULT_TOP_K of the deployment
\* (COHERE_API_KEY set, cohere client obtained)
CohereSetups == {<<FALSE, FALSE>>, <<TRUE, FALSE>>, <<TRUE, TRUE>>}

DefaultSettings ==
    [similarity_threshold |-> SimilarityDefault, default_top_k |-> TopKDefault,
     cohere_api_key |-> FALSE]

\* the local variables of a process_query call
NoLocals == [retrieved_context |-> <<>>, final_context |-> <<>>,
             conversation_history |-> <<>>, response_text |-> <<>>]

NoCall == [op |-> "none", args |-> <<>>, outcome |-> "none", value |-> <<>>,
           ext |-> NoExt, chunks |-> <<>>, again |-> FALSE, messages |-> <<>>,
           query_filter |-> <<>>, results |-> <<>>,
           locals |-> NoLocals, trace |-> <<>>]

----------------------------------------------------------------------------
(* The splitter applied to every bounded text *)

\* EmbeddingService instances of the deployment that run _create_collection
MaxInstances == 3
Instances == 1..MaxInstances

\* an instance before its _create_collection call: seen is whether the
\* collection name was in the list it got, create is the outcome of its
\* create_collection request, qdrant_client whether its client is still set
NewInstance == [pc |-> "start", seen |-> FALSE, create |-> "none",
                outcome |-> "none", qdrant_client |-> TRUE]
BuiltInstance == [pc |-> "done", seen |-> TRUE, create |-> "none",
                  outcome |-> "constructed", qdrant_client |-> TRUE]

\* the collection is declared as the services require and every instance
\* is constructed
SetupDone ==
    /\ collection = RequiredCollection
    /\ instances = [i \in Instances |-> BuiltInstance]

ServicesIdle ==
    /\ SetupDone
    /\ settings = DefaultSettings
    /\ embedding_service = NewEmbeddingService(TRUE, TRUE)
    /\ retrieval_service = NewRetrievalService(TRUE, TRUE)
    /\ rag_service = NewRAGService(TRUE, TRUE, FALSE)
    /\ index = {}
    /\ next_uuid = 0
    /\ ingest_count = [d \in Docs |-> 0]
    /\ call = NoCall

InitSplit ==
    /\ text \in Texts
    /\ chunk_size \in ChunkSizes
    /\ chunks = <<>>
    /\ pc = "input"
    /\ ServicesIdle

SplitText ==
    /\ pc = "input"
    /\ chunks' = split_text(text, chunk_size)
    /\ pc' = "split"
    /\ UNCHANGED <<text, chunk_size>>
    /\ UNCHANGED serviceVars
    /\ UNCHANGED setupVars

NextSplit == SplitText

SplitSpec == InitSplit /\ [][NextSplit]_vars

----------------------------------------------------------------------------
(* Ingestion: generate_embeddings and process_document on one EmbeddingService *)

SplitterIdle ==
    /\ text = <<>>
    /\ chunk_size = ServiceChunkSize
    /\ chunks = <<>>
    /\ pc = "idle"

InitIngest ==
    /\ SplitterIdle
    /\ SetupDone
    /\ \E inst \in Installs :
          /\ embedding_service = NewEmbeddingService(inst[1], inst[2])
          /\ retrieval_service = NewRetrievalService(inst[1], inst[2])
          /\ rag_service = NewRAGService(inst[1], inst[2], FALSE)
    /\ settings = DefaultSettings
    /\ index \in Collections
    /\ next_uuid = 0
    /\ ingest_count = [d \in Docs |-> 0]
    /\ call = NoCall

GenerateEmbeddings ==
    /\ call = NoCall
    /\ \E texts \in TextLists, ext \in EmbedOutcomes :
           LET r == generate_embeddings(embedding_service, texts, ext)
           IN /\ call' = [op |-> "generate_embeddings", args |-> texts,
                          outcome |-> r.outcome, value |-> r.value,
                          ext |-> [NoExt EXCEPT !.embed = EmbedEvent(embedding_service, ext)],
                          chunks |-> <<>>, again |-> FALSE, messages |-> <<>>,
                          query_filter |-> <<>>, results |-> <<>>,
                          locals |-> NoLocals, trace |-> <<>>]
              /\ UNCHANGED <<settings, embedding_service, retrieval_service,
                             rag_service, index, next_uuid, ingest_count>>
              /\ UNCHANGED splitVars
              /\ UNCHANGED setupVars

ProcessDocument ==
    /\ call = NoCall
    /\ \E d \in Docs, metadata \in Metadatas,
          extEmbed \in EmbedOutcomes, extUpsert \in UpsertOutcomes :
           LET r == process_document(embedding_service, d.content, d.title, metadata,
                                     index, extEmbed, extUpsert, next_uuid)
           IN /\ ingest_count[d] < MaxIngest
              /\ next_uuid + r.uuids <= MaxUuid
              /\ index' = r.index
              /\ next_uuid' = next_uuid + r.uuids
              /\ ingest_count' = [ingest_count EXCEPT ![d] = @ + 1]
              /\ call' = [op |-> "process_document",
                          args |-> [doc |-> d, metadata |-> metadata],
                          outcome |-> r.res.outcome, value |-> r.res.value,
                          ext |-> [NoExt EXCEPT
                                     !.embed = EmbedEvent(embedding_service, extEmbed),
                                     !.upsert = r.upsert],
                          chunks |-> r.chunks,
                          again |-> ingest_count[d] > 0, messages |-> <<>>,
                          query_filter |-> <<>>, results |-> <<>>,
                          locals |-> NoLocals, trace |-> <<>>]
              /\ UNCHANGED <<settings, embedding_service, retrieval_service,
                             rag_service>>
              /\ UNCHANGED splitVars
              /\ UNCHANGED setupVars

ChunkAndEmbedDocument ==
    /\ call = NoCall
    /\ \E d \in Docs, metadata \in Metadatas, ext \in EmbedOutcomes :
           LET r == chunk_and_embed_document(embedding_service, d.content, metadata,
                                             ext, next_uuid)
           IN /\ next_uuid + 2 * Len(r.value) <= MaxUuid
              /\ next_uuid' = next_uuid + 2 * Len(r.value)
              /\ call' = [op |-> "chunk_and_embed_document",
                          args |-> [doc |-> d, metadata |-> metadata],
                          outcome |-> r.outcome, value |-> <<>>,
                          ext |-> [NoExt EXCEPT
                                     !.embed = EmbedEvent(embedding_service, ext)],
                          chunks |-> r.value, again |-> FALSE, messages |-> <<>>,
                          query_filter |-> <<>>, results |-> <<>>,
                          locals |-> NoLocals, trace |-> <<>>]
              /\ UNCHANGED <<settings, embedding_service, retrieval_service,
                             rag_service, index, ingest_count>>
              /\ UNCHANGED splitVars
              /\ UNCHANGED setupVars

StoreDocumentChunks ==
    /\ call = NoCall
    /\ \E dchunks \in ChunkLists, ext \in UpsertOutcomes :
           LET r == store_document_chunks(embedding_service, dchunks, index, ext)
           IN /\ index' = r.index
              /\ call' = [op |-> "store_document_chunks", args |-> dchunks,
                          outcome |-> r.res.outcome, value |-> r.res.value,
                          ext |-> [NoExt EXCEPT !.upsert = r.upsert],
                          chunks |-> dchunks, again |-> FALSE, messages |-> <<>>,
                          query_filter |-> <<>>, results |-> <<>>,
                          locals |-> NoLocals, trace |-> <<>>]
              /\ UNCHANGED <<settings, embedding_service, retrieval_service,
                             rag_service, next_uuid, ingest_count>>
              /\ UNCHANGED splitVars
              /\ UNCHANGED setupVars

\* the caller takes the outcome of the call; the services are idle again
Respond ==
    /\ call # NoCall
    /\ call' = NoCall
    /\ UNCHANGED <<settings, embedding_service, retrieval_service, rag_service,
                   index, next_uuid, ingest_count>>
    /\ UNCHANGED splitVars
    /\ UNCHANGED setupVars

NextIngest ==
    \/ GenerateEmbeddings
    \/ ChunkAndEmbedDocument
    \/ StoreDocumentChunks
    \/ ProcessDocument
    \/ Respond

IngestSpec == InitIngest /\ [][NextIngest]_vars

----------------------------------------------------------------------------
(* Queries: search, get_relevant_context and process_query *)

InitQuery ==
    /\ SplitterIdle
    /\ SetupDone
    /\ \E inst \in Installs, co \in CohereSetups :
          /\ embedding_service = NewEmbeddingService(inst[1], inst[2])
          /\ retrieval_service = NewRetrievalService(inst[1], inst[2])
          /\ rag_service = NewRAGService(inst[1], inst[2], co[2])
          /\ \E th \in Thresholds, k \in DefaultTopKs :
                settings = [similarity_threshold |-> th, default_top_k |-> k,
                            cohere_api_key |-> co[1]]
    /\ index \in Collections
    /\ next_uuid = 0
    /\ ingest_count = [d \in Docs |-> 0]
    /\ call = NoCall

\* a search that stores the query vector in the collection
SearchPersisting ==
    /\ call = NoCall
    /\ \E query \in Queries, top_k \in TopKs, filters \in FilterSets,
          extEmbed \in EmbedOutcomes, extSearch \in SearchOutcomes :
           LET r == search(retrieval_service, query, top_k, filters, index,
                           settings.similarity_threshold, extEmbed, extSearch)
           IN /\ call' = [op |-> "search",
                          args |-> [query |-> query, top_k |-> top_k,
                                    filters |-> filters],
                          outcome |-> r.res.outcome, value |-> r.res.value,
                          ext |-> [NoExt EXCEPT !.embed = r.embed, !.search = r.search],
                          chunks |-> <<>>, again |-> FALSE, messages |-> <<>>,
                          query_filter |-> r.query_filter, results |-> r.res,
                          locals |-> NoLocals, trace |-> r.trace]
              /\ index' = Upsert(index, {Point(<<"query", 0>>, Embed(query),
                                                [content |-> query])})
              /\ UNCHANGED <<settings, embedding_service, retrieval_service,
                             rag_service, next_uuid, ingest_count>>
              /\ UNCHANGED splitVars
              /\ UNCHANGED setupVars

Search ==
    /\ call = NoCall
    /\ \E query \in Queries, top_k \in TopKs, filters \in FilterSets,
          extEmbed \in EmbedOutcomes, extSearch \in SearchOutcomes :
           LET r == search(retrieval_service, query, top_k, filters, index,
                           settings.similarity_threshold, extEmbed, extSearch)
           IN /\ call' = [op |-> "search",
                          args |-> [query |-> query, top_k |-> top_k,
                                    filters |-> filters],
                          outcome |-> r.res.outcome, value |-> r.res.value,
                          ext |-> [NoExt EXCEPT !.embed = r.embed, !.search = r.search],
                          chunks |-> <<>>, again |-> FALSE, messages |-> <<>>,
                          query_filter |-> r.query_filter, results |-> r.res,
                          locals |-> NoLocals, trace |-> r.trace]
              /\ UNCHANGED <<settings, embedding_service, retrieval_service,
                             rag_service, index, next_uuid, ingest_count>>
              /\ UNCHANGED splitVars
              /\ UNCHANGED setupVars

GetRelevantContext ==
    /\ call = NoCall
    /\ \E query \in Queries, extEmbed \in EmbedOutcomes, extSearch \in SearchOutcomes :
           LET r == get_relevant_context(retrieval_service, query, ContextTopK, index,
                                         settings.similarity_threshold, extEmbed, extSearch)
           IN /\ call' = [op |-> "get_relevant_context",
                          args |-> [query |-> query, top_k |-> ContextTopK],
                          outcome |-> r.res.outcome, value |-> r.res.value,
                          ext |-> [NoExt EXCEPT !.embed = r.embed, !.search = r.search],
                          chunks |-> <<>>, again |-> FALSE, messages |-> <<>>,
                          query_filter |-> <<>>, results |-> r.results,
                          locals |-> NoLocals, trace |-> r.trace]
              /\ UNCHANGED <<settings, embedding_service, retrieval_service,
                             rag_service, index, next_uuid, ingest_count>>
              /\ UNCHANGED splitVars
              /\ UNCHANGED setupVars

\* the call's outcome is recorded for the caller; limit bounds the uuids drawn
Answer(op, args, r, limit) ==
    /\ next_uuid + r.uuids <= limit
    /\ next_uuid' = next_uuid + r.uuids
    /\ call' = [op |-> op, args |-> args,
                outcome |-> r.res.outcome, value |-> r.res.value,
                ext |-> r.ext, chunks |-> <<>>, again |-> FALSE,
                messages |-> r.messages,
                query_filter |-> <<>>, results |-> r.results,
                locals |-> r.locals, trace |-> r.trace]
    /\ UNCHANGED <<settings, embedding_service, retrieval_service,
                   rag_service, index, ingest_count>>
    /\ UNCHANGED splitVars
    /\ UNCHANGED setupVars

ProcessQueryOn(contexts, histories) ==
    /\ call = NoCall
    /\ \E query \in Queries, context \in contexts, history \in histories,
          env \in EnvsOf(rag_service, settings) :
           Answer("process_query",
                  [query |-> query, context |-> context, history |-> history],
                  process_query(rag_service, query, context, history, index,
                                settings, env, next_uuid),
                  MaxConversations)

ProcessQuery ==
    \/ ProcessQueryOn(Contexts, Histories)
    \/ ProcessQueryOn(BlankContexts, {<<>>})

Chat ==
    /\ call = NoCall
    /\ \E message \in Queries, conversation_id \in ConversationIds,
          history \in Histories, env \in ChatEnvs \cap EnvsOf(rag_service, settings) :
           Answer("chat",
                  [query |-> message, context |-> <<>>, history |-> history,
                   conversation_id |-> conversation_id],
                  chat(rag_service, message, conversation_id, history, index,
                       settings, env, next_uuid),
                  MaxConversations + 1)

\* POST /chat: process_query on the request's fields
ChatEndpoint ==
    /\ call = NoCall
    /\ \E message \in Queries, context \in Contexts,
          conversation_id \in ConversationIds,
          history \in EndpointHistories, env \in ChatEnvs \cap EnvsOf(rag_service, settings) :
           Answer("chat_endpoint",
                  [query |-> message, context |-> context, history |-> history,
                   conversation_id |-> conversation_id],
                  chat_endpoint(rag_service, message, context, history, index,
                                settings, env, next_uuid),
                  MaxConversations)

NextQuery ==
    \/ Search
    \/ GetRelevantContext
    \/ ProcessQuery
    \/ Chat
    \/ ChatEndpoint
    \/ Respond

QuerySpec == InitQuery /\ [][NextQuery]_vars

----------------------------------------------------------------------------
(* Properties of the splitter (SplitSpec) *)

NonWhitespace(s) == SelectSeq(s, LAMBDA c : c \notin Whitespace)

RECURSIVE Flatten(_)
Flatten(cl) == IF cl = <<>> THEN <<>> ELSE Head(cl) \o Flatten(Tail(cl))

HasParagraphBreak(s) == \E i \in 1..(Len(s) - 1) : s[i] = NL /\ s[i + 1] = NL
HasTerminator(s) == \E i \in 1..Len(s) : s[i] \in Terminators

\* C1: split_text loses no content - the non-whitespace characters of the
\* returned chunks, concatenated in order, are the non-whitespace characters
\* of the input (sentence terminators included).
C1_NoContentLoss ==
    pc = "split" => NonWhitespace(Flatten(chunks)) = NonWhitespace(text)

\* C2: every chunk returned by split_text has length <= chunk_size, except a
\* chunk that contains neither a paragraph break nor a sentence terminator.
C2_ChunksBounded ==
    pc = "split" =>
        \A i \in DOMAIN chunks :
            \/ Len(chunks[i]) <= chunk_size
            \/ (~HasParagraphBreak(chunks[i]) /\ ~HasTerminator(chunks[i]))

----------------------------------------------------------------------------
(* Properties of ingestion (IngestSpec) *)

\* the points of the collection that belong to document d
DocPoints(idx, d) ==
    {p \in idx : p.payload.metadata["title"] = d.title}

C4_OneOwner ==
    call.op = "process_document" =>
        /\ \A i, j \in DOMAIN call.chunks :
               call.chunks[i].document_id = call.chunks[j].document_id
        /\ call.outcome = "returned" =>
               \A i \in DOMAIN call.chunks :
                   call.chunks[i].document_id = call.value.document_id

\* C5: on an EmbeddingService with an embedding client, a generate_embeddings
\* call (for at least one text) whose external request fails raises and
\* returns no placeholder vector.
C5_NoMixedModes ==
    (/\ call.op = "generate_embeddings"
     /\ call.args # <<>>
     /\ embedding_service.qwen_client
     /\ call.ext.embed = "failed") =>
        /\ call.outcome = "raised"
        /\ \A i \in DOMAIN call.value : call.value[i] # Placeholder

\* C6: a process_document call during which the embedding request or the
\* upsert fails raises; it returns no "success" result.
C6_IngestFailureFatal ==
    (/\ call.op = "process_document"
     /\ (call.ext.embed = "failed" \/ call.ext.upsert = "failed")) =>
        call.outcome = "raised"

----------------------------------------------------------------------------
(* Properties of the query path (QuerySpec) *)

\* C7: a process_query call whose context retrieval hits a failing index
\* search raises and sends nothing to the generation service.
C7_RetrievalFailureFatal ==
    (call.op = "process_query" /\ call.ext.search = "failed") =>
        /\ call.outcome = "raised"
        /\ call.ext.generation = "none"

\* C8: a process_query call made while the generation service is unavailable
\* (no generation client, or the completion request fails) raises; it returns
\* no answer bundle.
C8_GenerationFailureFatal ==
    (/\ call.op = "process_query"
     /\ (~rag_service.qwen_client \/ call.ext.generation = "failed")) =>
        call.outcome = "raised"

\* C9: search returns results only from a configured, reachable index, and
\* every result it returns is a point held by the index.
C9_UnavailableIndexSignalled ==
    (call.op = "search" /\ call.outcome = "returned") =>
        /\ retrieval_service.qdrant_client
        /\ call.ext.search = "ok"
        /\ \A i \in DOMAIN call.value : call.value[i].id \in Ids(index)

\* C10: the list search returns has at most top_k results, in non-increasing
\* similarity order, each with similarity >= the configured threshold.
C10_SearchResultsBounded ==
    (call.op = "search" /\ call.outcome = "returned") =>
        /\ Len(call.value) <= call.args.top_k
        /\ \A i \in 1..(Len(call.value) - 1) :
               call.value[i].similarity >= call.value[i + 1].similarity
        /\ \A i \in DOMAIN call.value :
               call.value[i].similarity >= settings.similarity_threshold

----------------------------------------------------------------------------
(* Claims about QuerySpec: filters and context assembly *)

\* an entry of the filters dict holds of a returned result
EntryHolds(result, entry) ==
    /\ entry.key \in DOMAIN result.metadata
    /\ result.metadata[entry.key] = entry.value

\* C11: a search against the store with a non-empty filters dict queries with
\* one "must" condition per entry of the dict, whatever the type of the
\* entry's value, so every returned result matches every entry.
C11_FiltersConjunction ==
    (/\ call.op = "search"
     /\ call.ext.search = "ok"
     /\ call.args.filters # <<>>)
    => /\ Len(call.query_filter) = Len(call.args.filters)
       /\ \A i \in DOMAIN call.value : \A e \in DOMAIN call.args.filters :
              EntryHolds(call.value[i], call.args.filters[e])

----------------------------------------------------------------------------
(* Claims about IngestSpec: embeddings and chunks *)

\* C12: generate_embeddings returns one vector of dimension EmbeddingDim per
\* input text, the i-th one for the i-th text (the embedding of the text, or
\* the placeholder of the degraded mode), and the empty list for the empty
\* list, whatever the embedding service answers.
C12_OneVectorPerText ==
    call.op = "generate_embeddings"
    => /\ call.outcome = "returned"
       /\ Len(call.value) = Len(call.args)
       /\ \A i \in DOMAIN call.value :
              /\ call.value[i].dim = EmbeddingDim
              /\ i \in DOMAIN call.args
                 => call.value[i] \in {Embed(call.args[i]), Placeholder}

\* the stripped non-blank chunk texts of a document
ChunkTextsOf(d) == StripNonBlank(split_text(d.content, ServiceChunkSize))

\* C13: chunk_and_embed_document returns one chunk per non-blank chunk text,
\* each with total_chunks equal to the number of chunks returned and with the
\* text and the vector of its position; when the embedding service answers
\* with another number of vectors than texts, the call raises.
C13_OneChunkPerText ==
    call.op = "chunk_and_embed_document"
    => LET texts == ChunkTextsOf(call.args.doc)
       IN IF call.ext.embed = "short" /\ texts # <<>>
          THEN call.outcome = "raised"
          ELSE /\ call.outcome = "returned"
               /\ Len(call.chunks) = Len(texts)
               /\ \A i \in DOMAIN call.chunks :
                      /\ call.chunks[i].total_chunks = Len(call.chunks)
                      /\ call.chunks[i].content = texts[i]
                      /\ call.chunks[i].embedding \in {Embed(texts[i]), Placeholder}

\* C14: the chunks produced by one ingestion have 0 <= chunk_index <
\* total_chunks, one common total_chunks and pairwise distinct chunk_index.
C14_ChunkIndexing ==
    call.op \in {"chunk_and_embed_document", "process_document"}
    => /\ \A i \in DOMAIN call.chunks :
              /\ 0 <= call.chunks[i].chunk_index
              /\ call.chunks[i].chunk_index < call.chunks[i].total_chunks
       /\ \A i, j \in DOMAIN call.chunks :
              /\ call.chunks[i].total_chunks = call.chunks[j].total_chunks
              /\ i # j => call.chunks[i].chunk_index # call.chunks[j].chunk_index

\* an ingestion that produced several chunks
C14_Witness ==
    /\ call.op = "chunk_and_embed_document"
    /\ Len(call.chunks) >= 2
    /\ call.ext.embed = "ok"

----------------------------------------------------------------------------
(* Claims about SplitSpec: short and blank texts *)

\* C15: for a text no longer than chunk_size, split_text returns exactly one
\* chunk, the text with its leading and trailing whitespace removed.
C15_ShortTextTrimmed ==
    (pc = "split" /\ Len(text) <= chunk_size) => chunks = <<Strip(text)>>

\* C16: no chunk returned by split_text is empty after trimming, for any
\* text; a text of whitespace only (the empty text included) returns the
\* empty sequence.
C16_NoBlankChunk ==
    pc = "split"
    => /\ \A i \in DOMAIN chunks : NonWhitespace(chunks[i]) # <<>>
       /\ NonWhitespace(text) = <<>> => chunks = <<>>

----------------------------------------------------------------------------
(* Claims about QuerySpec: the context block *)

IsSuffix(suffix, s) ==
    /\ Len(suffix) <= Len(s)
    /\ SubSeq(s, Len(s) - Len(suffix) + 1, Len(s)) = suffix

\* the contents of the results that are not blank, in the order of the results
NonBlankContents(results) ==
    LET kept == SelectSeq(results, LAMBDA r : NonWhitespace(r.content) # <<>>)
    IN [i \in DOMAIN kept |-> kept[i].content]

\* the block is non-empty and consists of one entry per content, in order,
\* separated by blank lines, each entry ending with its content
EntriesCarry(block, contents) ==
    LET entries == SplitParagraphs(block)
    IN /\ block # <<>>
       /\ Len(entries) = Len(contents)
       /\ \A i \in DOMAIN contents : IsSuffix(contents[i], entries[i])

\* C17 as stated: get_relevant_context returns the empty string when search
\* returns no results, and for one or more results a non-empty block with
\* the content of every retrieved chunk, in the order of the results,
\* separated by blank lines.
C17_ContextOfResults ==
    (/\ call.op = "get_relevant_context"
     /\ call.results.outcome = "returned")
    => IF call.results.value = <<>>
       THEN call.value = <<>>
       ELSE EntriesCarry(call.value, NonBlankContents(call.results.value))

\* C17 amended: get_relevant_context returns the empty string when search
\* returns no result whose content is non-blank, and otherwise a non-empty
\* block with the content of every retrieved chunk whose content is
\* non-blank, in the order of the results, separated by blank lines.
C17_ContextOfNonBlankResults ==
    (/\ call.op = "get_relevant_context"
     /\ call.results.outcome = "returned")
    => IF NonBlankContents(call.results.value) = <<>>
       THEN call.value = <<>>
       ELSE EntriesCarry(call.value, NonBlankContents(call.results.value))

\* a context built from stored results of which one has blank content
C17_Witness ==
    /\ call.op = "get_relevant_context"
    /\ call.results.outcome = "returned"
    /\ call.ext.search = "ok"
    /\ Len(call.results.value) = 3
    /\ Len(NonBlankContents(call.results.value)) = 2
    /\ call.value # <<>>

----------------------------------------------------------------------------
(* Claims about IngestSpec: storing chunks *)

\* C18: process_document of a non-blank document no longer than chunk_size,
\* on a service with a vector index client whose requests succeed, returns
\* chunks_processed = 1 with status "success", and on return the collection
\* holds exactly one point of the call, carrying content, document_id,
\* chunk_index, metadata and created_at of the chunk.
C18_ShortDocumentStored ==
    (/\ call.op = "process_document"
     /\ call.args.doc = DocShort
     /\ embedding_service.qdrant_client
     /\ call.ext.embed = "ok"
     /\ call.ext.upsert # "failed")
    => /\ call.outcome = "returned"
       /\ call.value.chunks_processed = 1
       /\ call.value.status = "success"
       /\ Len(call.chunks) = 1
       /\ PointOf(call.chunks[1]) \in index
       /\ Cardinality({p \in index :
                          p.payload.document_id = call.value.document_id}) = 1

\* the collection after a store_document_chunks call whose upsert request,
\* if one is made, succeeds
StoredInto(idx, dchunks) ==
    store_document_chunks(embedding_service, dchunks, idx, "ok").index

----------------------------------------------------------------------------
(* Claims about QuerySpec: source attribution *)

\* C20: when the retrieval made by _get_sources fails (its search request
\* raises, or the query embedding comes back empty), process_query returns
\* normally, with the generated answer and an empty sources list.
C20_SourcesBestEffort ==
    (/\ call.op = "process_query"
     /\ (call.ext.search2 = "failed" \/ call.ext.embed2 = "short"))
    => /\ call.outcome = "returned"
       /\ call.value.sources = <<>>
       /\ call.value.response # <<>>
       /\ call.ext.generation = "ok"
          => call.value.response \in {Completion, Summary}

\* a query answered by the model whose source retrieval failed
C20_Witness ==
    /\ call.op = "process_query"
    /\ call.ext.generation = "ok"
    /\ call.ext.search = "ok"
    /\ call.ext.search2 = "failed"
    /\ call.outcome = "returned"
    /\ call.value.response = Completion

----------------------------------------------------------------------------
(* Claims about QuerySpec: enhancement, prompt assembly, attribution *)

\* C21: when the summarizer is not configured (no COHERE_API_KEY), absent
\* (no client) or its request fails, a process_query call whose generation
\* step returned returns normally, and its response is exactly the text the
\* generation step returned.
C21_EnhancementNeverFatal ==
    (/\ call.op = "process_query"
     /\ call.ext.generation # "failed"
     /\ call.ext.summarize # "ok")
    => /\ call.outcome = "returned"
       /\ call.value.response = call.locals.response_text
       /\ call.value.response =
              IF call.ext.generation = "ok" THEN Completion
              ELSE MockResponse(call.args.query)

\* a query answered by the model whose summarisation request failed
C21_Witness ==
    /\ call.op = "process_query"
    /\ settings.cohere_api_key
    /\ call.ext.generation = "ok"
    /\ call.ext.summarize = "failed"
    /\ call.outcome = "returned"

----------------------------------------------------------------------------
(* Collection setup: EmbeddingService instances, possibly of several        *)
(* processes (the API server, load_content.py), run _create_collection      *)
(* against one Qdrant server; the two requests of a call are separate steps *)

\* declarations the collection may have before the services start
CollectionStates ==
    {Absent, RequiredCollection, Declared(768, "Cosine"),
     Declared(EmbeddingDim, "Euclid")}
CollectionRequestOutcomes == {"ok", "failed"}

InitSetup ==
    /\ SplitterIdle
    /\ settings = DefaultSettings
    /\ embedding_service = NewEmbeddingService(TRUE, TRUE)
    /\ retrieval_service = NewRetrievalService(TRUE, TRUE)
    /\ rag_service = NewRAGService(TRUE, TRUE, FALSE)
    /\ index = {}
    /\ next_uuid = 0
    /\ ingest_count = [d \in Docs |-> 0]
    /\ call = NoCall
    /\ collection \in CollectionStates
    /\ instances = [i \in Instances |-> NewInstance]

\* get_collections() and the test of the name; an exception is logged and
\* construction goes on
GetCollections(i) ==
    /\ instances[i].pc = "start"
    /\ \E ext \in CollectionRequestOutcomes :
          instances' = [instances EXCEPT ![i] =
              IF ext = "failed"
              THEN [@ EXCEPT !.pc = "done", !.outcome = "constructed"]
              ELSE IF collection.exists
                   THEN [@ EXCEPT !.pc = "done", !.seen = TRUE,
                                  !.outcome = "constructed"]
                   ELSE [@ EXCEPT !.pc = "checked", !.seen = FALSE]]
    /\ UNCHANGED collection
    /\ UNCHANGED serviceVars
    /\ UNCHANGED splitVars

\* create_collection(name, VectorParams(1536, COSINE)); Qdrant refuses to
\* create a collection that exists; an exception is logged and construction
\* goes on
CreateCollection(i) ==
    /\ instances[i].pc = "checked"
    /\ \E ext \in CollectionRequestOutcomes :
          /\ collection' = IF ext = "ok" /\ ~collection.exists
                           THEN RequiredCollection ELSE collection
          /\ instances' = [instances EXCEPT ![i] =
                 [@ EXCEPT !.pc = "done", !.outcome = "constructed",
                           !.create = IF collection.exists THEN "conflict"
                                      ELSE IF ext = "ok" THEN "created"
                                      ELSE "failed"]]
    /\ UNCHANGED serviceVars
    /\ UNCHANGED splitVars

NextSetup == \E i \in Instances : GetCollections(i) \/ CreateCollection(i)

SetupSpec == InitSetup /\ [][NextSetup]_vars

\* the collection is declared otherwise than the services require
Mismatch(c) == c.exists /\ c # RequiredCollection

\* C22: an EmbeddingService that finds the collection declared with another
\* vector size or distance than (1536, cosine) fails its construction with a
\* configuration error and does not go on using the collection; an existing
\* collection is never altered.
C22_MismatchIsFatal ==
    \A i \in Instances :
        (instances[i].pc = "done" /\ instances[i].seen /\ Mismatch(collection))
        => /\ instances[i].outcome = "failed"
           /\ ~instances[i].qdrant_client

\* C23: _create_collection is idempotent over any number of instances in any
\* interleaving - no instance issues a create request for a collection that
\* exists, an instance that found it present issues none, and when every
\* request succeeded the collection exists once all are done.
C23_SetupIdempotent ==
    \A i \in Instances :
        /\ instances[i].create # "conflict"
        /\ instances[i].seen => instances[i].create = "none"
        /\ (\A j \in Instances : /\ instances[j].pc = "done"
                                 /\ instances[j].create # "failed"
                                 /\ (instances[j].seen \/ instances[j].create # "none"))
           => collection.exists

\* C24: an answer of RAGService.chat or of POST /chat carries the caller's
\* conversation id when the caller supplied one, and an identifier generated
\* during the call otherwise.
C24_ConversationId ==
    (/\ call.op \in {"chat", "chat_endpoint"}
     /\ call.outcome = "returned")
    => IF call.args.conversation_id # NoConversationId
       THEN call.value.conversation_id = call.args.conversation_id
       ELSE \E n \in 0..(next_uuid - 1) : call.value.conversation_id = Uuid(n)


\* a part that is neither empty nor made of whitespace only
C25_Kept(part) == \E i \in DOMAIN part : part[i] \notin Whitespace

\* C25: the combined context of process_query is the supplied context and
\* the retrieved context joined by one blank line, after dropping each part
\* that is empty or blank (whitespace only); with one part left it is that
\* part alone, with none it is empty.
C25_CombinedContext ==
    call.op \in {"process_query", "chat", "chat_endpoint"}
    => LET supplied == call.args.context
           retrieved == call.locals.retrieved_context
       IN call.locals.final_context =
              IF C25_Kept(supplied) /\ C25_Kept(retrieved)
              THEN supplied \o <<NL, NL>> \o retrieved
              ELSE IF C25_Kept(supplied) THEN supplied
              ELSE IF C25_Kept(retrieved) THEN retrieved
              ELSE <<>>


\* the turns of a history rendered one per line, oldest of the last
\* HistoryWindow first
C26_Block(history) ==
    LET n == Len(history)
        k == IF n <= HistoryWindow THEN n ELSE HistoryWindow
    IN Flatten([i \in 1..k |-> <<NL, history[n - k + i].role, ": ">>
                               \o history[n - k + i].content])

\* C26: the history block process_query builds from a supplied history of n
\* turns holds exactly the last min(n, 5) turns, in their order, each as
\* "<role>: <content>" on a line of its own; it is empty for an empty history.
C26_HistoryBlock ==
    call.op \in {"process_query", "chat", "chat_endpoint"}
    => call.locals.conversation_history = C26_Block(call.args.history)


\* C27: every generation request carries an ordered message list: first the
\* system instruction, last the live query; a history message exactly when
\* the history block is non-empty, a context message exactly when the
\* combined context is non-empty, the history message ahead of the context
\* message, and nothing else.
C27_MessageList ==
    (/\ call.op \in {"process_query", "chat", "chat_endpoint"}
     /\ call.ext.generation # "none")
    => LET m == call.messages
           h == call.locals.conversation_history
           c == call.locals.final_context
           hm == [role |-> "user",
                  content |-> <<"Previous conversation:", NL>> \o h]
           cm == [role |-> "system",
                  content |-> <<"Context for answering the question:", NL>> \o c]
           inner == 2..(Len(m) - 1)
       IN /\ Len(m) = 2 + (IF h # <<>> THEN 1 ELSE 0) + (IF c # <<>> THEN 1 ELSE 0)
          /\ m[1] = [role |-> "system", content |-> SystemPrompt]
          /\ m[Len(m)] = [role |-> "user", content |-> call.args.query]
          /\ (h # <<>>) <=> \E i \in inner : m[i] = hm
          /\ (c # <<>>) <=> \E i \in inner : m[i] = cm
          /\ \A i, j \in inner : (m[i] = hm /\ m[j] = cm) => i < j

\* a generation request was sent with a history block and a combined context
C27_Witness ==
    /\ call.op = "process_query"
    /\ call.ext.generation = "ok"
    /\ call.args.history = History6
    /\ call.locals.final_context # <<>>
    /\ Len(call.messages) = 4


\* C28: in every answer bundle of process_query, each chunk whose content is
\* part of the returned context (a retrieved result with non-blank content)
\* is listed, by its id, in the returned sources.
C28_SourcesJustifyContext ==
    (/\ call.op \in {"process_query", "chat"}
     /\ call.outcome = "returned"
     /\ call.results.outcome = "returned")
    => \A i \in DOMAIN call.results.value :
          HasText(call.results.value[i].content)
          => \E j \in DOMAIN call.value.sources :
                call.value.sources[j].id = call.results.value[i].id


\* the request a step of process_query sends, when it sends one
C29_Step(made, name) == IF made # "none" THEN <<name>> ELSE <<>>

\* C29: within one process_query call the external requests are strictly
\* sequential: each request completes before the next one starts (never two
\* in flight), and they are issued in the order query embedding, vector
\* search, generation, source embedding, source search, enhancement.
C29_StepsSequential ==
    call.op \in {"process_query", "chat", "chat_endpoint"}
    => LET t == call.trace
           issued == [i \in 1..(Len(t) \div 2) |-> t[2 * i - 1].req]
       IN /\ Len(t) % 2 = 0
          /\ \A i \in 1..(Len(t) \div 2) :
                /\ t[2 * i - 1].phase = "start"
                /\ t[2 * i] = [req |-> t[2 * i - 1].req, phase |-> "end"]
          /\ issued = C29_Step(call.ext.embed, "embed")
                      \o C29_Step(call.ext.search, "search")
                      \o C29_Step(call.ext.generation, "generation")
                      \o C29_Step(call.ext.embed2, "embed")
                      \o C29_Step(call.ext.search2, "search")
                      \o C29_Step(call.ext.summarize, "summarize")

\* a call that made all six external requests
C29_Witness ==
    /\ call.op = "process_query"
    /\ call.outcome = "returned"
    /\ \A k \in DOMAIN call.ext \ {"upsert"} : call.ext[k] # "none"
    /\ Len(call.trace) = 12


QueryPath == {"search", "get_relevant_context", "process_query", "chat",
              "chat_endpoint"}

\* C30: the query path has no persistent effect: a search,
\* get_relevant_context, process_query, chat or POST /chat call leaves the
\* contents of the vector index and every field of the RAGService,
\* RetrievalService and EmbeddingService objects as they were.
C30_QueryPathReadOnly ==
    [][(call = NoCall /\ call'.op \in QueryPath)
       => /\ index' = index
          /\ rag_service' = rag_service
          /\ retrieval_service' = retrieval_service
          /\ embedding_service' = embedding_service]_vars

\* a search request against a non-empty collection has been answered
C30_Witness ==
    /\ call.op \in QueryPath
    /\ call.ext.search = "ok"
    /\ index # {}

====
